---- MODULE Spec2Model ----
(***************************************************************************)
(* Model of the EDGAR filing downloader (src/a.go): the rate-limited,      *)
(* retry-aware dispatcher doRateLimitedRequest, the per-symbol pipeline    *)
(* processTicker (getCIK, getFilings, selection, downloadFiling loop and   *)
(* summary) and the main loop over the symbols of a run.                   *)
(*                                                                         *)
(* Strings are TLA+ strings; Len, SubSeq and \o act on them character by   *)
(* character, so error messages, URLs and file names are built and         *)
(* searched as the code builds and searches them.                          *)
(***************************************************************************)
EXTENDS Integers, Sequences, FiniteSets, TLC

\* ------------------------------------------------------------------------
\* Program constants (src/a.go:64-81)
\* ------------------------------------------------------------------------
MaxFilesToFetch == 10
MaxRetries == 5
DefaultRetryDelay == 5
StatusOK == 200

\* ------------------------------------------------------------------------
\* Bounds of the model
\* ------------------------------------------------------------------------
MaxTickers == 2
MaxRuns == 2
MaxEntries == 2
MaxPrefix == 3
MaxFill == 11
MaxSuffix == 2
MaxPieces == 3
MaxAlign == 3

\* ------------------------------------------------------------------------
\* String helpers (strings.Contains, strings.ReplaceAll, strings.ToUpper,
\* strings.TrimSpace, strings.TrimLeft, fmt "%d" and "%010d")
\* ------------------------------------------------------------------------
Contains(s, sub) ==
    \E i \in 1..(Len(s) - Len(sub) + 1) : SubSeq(s, i, i + Len(sub) - 1) = sub

\* the helpers walk a text by position.  The positions from i on where old
\* stands in s
Hits(s, old, i) ==
    { j \in i..(Len(s) - Len(old) + 1) : SubSeq(s, j, j + Len(old) - 1) = old }

\* s from position i on, with every occurrence of old, taken from the left
\* and not overlapping, replaced by new
RECURSIVE ReplaceFrom(_, _, _, _)
ReplaceFrom(s, old, new, i) ==
    IF Hits(s, old, i) = {} THEN SubSeq(s, i, Len(s))
    ELSE LET j == CHOOSE h \in Hits(s, old, i) : \A k \in Hits(s, old, i) : h <= k
         IN  SubSeq(s, i, j - 1) \o new \o ReplaceFrom(s, old, new, j + Len(old))

ReplaceAll(s, old, new) == ReplaceFrom(s, old, new, 1)

Lower == "abcdefghijklmnopqrstuvwxyz"
Upper == "ABCDEFGHIJKLMNOPQRSTUVWXYZ"

UpperChar(c) ==
    IF \E i \in 1..26 : SubSeq(Lower, i, i) = c
    THEN LET i == CHOOSE j \in 1..26 : SubSeq(Lower, j, j) = c
         IN  SubSeq(Upper, i, i)
    ELSE c

RECURSIVE ToUpperFrom(_, _)
ToUpperFrom(s, i) ==
    IF i > Len(s) THEN ""
    ELSE UpperChar(SubSeq(s, i, i)) \o ToUpperFrom(s, i + 1)

ToUpper(s) == ToUpperFrom(s, 1)

RECURSIVE TrimLeftFrom(_, _, _)
TrimLeftFrom(s, c, i) ==
    IF i <= Len(s) /\ SubSeq(s, i, i) = c
    THEN TrimLeftFrom(s, c, i + 1)
    ELSE SubSeq(s, i, Len(s))

TrimLeft(s, c) == TrimLeftFrom(s, c, 1)

RECURSIVE TrimRightTo(_, _, _)
TrimRightTo(s, c, n) ==
    IF n > 0 /\ SubSeq(s, n, n) = c
    THEN TrimRightTo(s, c, n - 1)
    ELSE SubSeq(s, 1, n)

TrimRight(s, c) == TrimRightTo(s, c, Len(s))

TrimSpace(s) == TrimRight(TrimLeft(s, " "), " ")

LowerChar(c) ==
    IF \E i \in 1..26 : SubSeq(Upper, i, i) = c
    THEN LET i == CHOOSE j \in 1..26 : SubSeq(Upper, j, j) = c
         IN  SubSeq(Lower, i, i)
    ELSE c

RECURSIVE ToLowerFrom(_, _)
ToLowerFrom(s, i) ==
    IF i > Len(s) THEN ""
    ELSE LowerChar(SubSeq(s, i, i)) \o ToLowerFrom(s, i + 1)

ToLower(s) == ToLowerFrom(s, 1)

\* the tickers compared byte by byte
EqualExact(a, b) == a = b

\* strings.EqualFold: equal under case folding
EqualFold(a, b) == ToUpper(a) = ToUpper(b)

Digits == "0123456789"

RECURSIVE Itoa(_)
Itoa(n) ==
    IF n < 10 THEN SubSeq(Digits, n + 1, n + 1)
    ELSE Itoa(n \div 10) \o SubSeq(Digits, (n % 10) + 1, (n % 10) + 1)

RECURSIVE PadLeft(_, _, _)
PadLeft(s, c, w) == IF Len(s) >= w THEN s ELSE PadLeft(c \o s, c, w)

PaddedCIK(cik) == PadLeft(Itoa(cik), "0", 10)


\* ------------------------------------------------------------------------
\* Retry-After parsing (src/a.go:86-99)
\* ------------------------------------------------------------------------
IsDigits(s) ==
    /\ Len(s) > 0
    /\ \A i \in 1..Len(s) : Contains(Digits, SubSeq(s, i, i))

DigitOf(c) == CHOOSE d \in 0..9 : SubSeq(Digits, d + 1, d + 1) = c

\* the value of the first n digits of s
RECURSIVE DigitsValTo(_, _)
DigitsValTo(s, n) ==
    IF n = 0 THEN 0
    ELSE 10 * DigitsValTo(s, n - 1) + DigitOf(SubSeq(s, n, n))

DigitsVal(s) == DigitsValTo(s, Len(s))

HasSign(s) == Len(s) > 0 /\ SubSeq(s, 1, 1) \in {"+", "-"}

\* a < b for decimal numerals without leading zeros ("" is zero); numbers of
\* the width of an int are compared as numerals, digit by digit
RECURSIVE DecLessFrom(_, _, _)
DecLessFrom(a, b, i) ==
    IF i > Len(a) THEN FALSE
    ELSE IF SubSeq(a, i, i) # SubSeq(b, i, i)
         THEN DigitOf(SubSeq(a, i, i)) < DigitOf(SubSeq(b, i, i))
    ELSE DecLessFrom(a, b, i + 1)

DecLess(a, b) == IF Len(a) # Len(b) THEN Len(a) < Len(b) ELSE DecLessFrom(a, b, 1)

\* the numeral of |n| for a text strconv.Atoi reads as n
Magnitude(s) == TrimLeft(IF HasSign(s) THEN SubSeq(s, 2, Len(s)) ELSE s, "0")

IsNegative(s) == Len(s) > 0 /\ SubSeq(s, 1, 1) = "-"

\* math.MaxInt64 and -math.MinInt64: int has 64 bits
MaxInt64 == "9223372036854775807"
MinInt64Magnitude == "9223372036854775808"

\* strconv.Atoi: an optional sign followed by decimal digits; a value out of
\* the range of int is an error
AtoiOK(s) ==
    /\ IsDigits(IF HasSign(s) THEN SubSeq(s, 2, Len(s)) ELSE s)
    /\ ~DecLess(IF IsNegative(s) THEN MinInt64Magnitude ELSE MaxInt64, Magnitude(s))

\* err == nil && secs > 0
AtoiPositive(s) == AtoiOK(s) /\ ~IsNegative(s) /\ Magnitude(s) # ""

\* math.MaxInt64 / time.Second and 2^64 / time.Second, in whole seconds
MaxSeconds == "9223372036"
WrapSeconds == "18446744073"

\* time.Duration(secs) * time.Second, an int64 of nanoseconds, for secs > 0.
\* Up to MaxSeconds the product is exact and is kept in seconds.  Beyond it
\* the product exceeds 2^63 - 1 and wraps; up to WrapSeconds it is below 2^64
\* and wraps to a negative Duration, of which the sign is kept, the one thing
\* the caller looks at (delay <= 0, src/a.go:114)
MulSecond(m) ==
    CASE ~DecLess(MaxSeconds, m) -> DigitsVal(m)
      [] DecLess(MaxSeconds, m) /\ ~DecLess(WrapSeconds, m) -> -1

PastDate == "Wed, 21 Oct 2015 07:28:00 GMT"
FutureDate == "Fri, 01 Jan 2100 00:00:00 GMT"

\* http.ParseTime accepts the HTTP-date texts; time.Until gives the seconds
\* that remain from the moment of the call
ParseTimeOK(val) == val \in {PastDate, FutureDate}

TimeUntil(val) == IF val = FutureDate THEN 7 ELSE -60

parseRetryAfter(val) ==
    IF val = "" THEN 0
    ELSE IF AtoiPositive(val) THEN MulSecond(Magnitude(val))
    ELSE IF ParseTimeOK(val) /\ TimeUntil(val) > 0 THEN TimeUntil(val)
    ELSE 0

BackoffDelay(val, attempt) ==
    IF parseRetryAfter(val) <= 0
    THEN DefaultRetryDelay * (attempt + 1)
    ELSE parseRetryAfter(val)

\* the Retry-After texts a server sends
RetryHints == {"", "3", "0", "-2", "soon", PastDate, FutureDate, "9223372037"}

\* ------------------------------------------------------------------------
\* What the server can answer
\* ------------------------------------------------------------------------
Companies == { [CIK |-> 123456, Ticker |-> "Acme"] }

MappingDocs == SUBSET Companies

EmptySubs == [AccessionNumber |-> <<>>, FilingDate |-> <<>>, Form |-> <<>>, PrimaryDoc |-> <<>>]

\* one catalog row: accession token, filing date, form tag, primary document
Rows ==
    { <<"0001-24-000001", "2024-02-01", "10-K", "acme-10k.htm">>,
      <<"0001-24-000002", "2024-03-01", "8-K", "acme-8k.htm">>,
      <<"0001-24-000003", "2024-05-01", "10-Q", "already exists.htm">> }

SubsOf(rows) ==
    [AccessionNumber |-> [i \in 1..Len(rows) |-> rows[i][1]],
     FilingDate      |-> [i \in 1..Len(rows) |-> rows[i][2]],
     Form            |-> [i \in 1..Len(rows) |-> rows[i][3]],
     PrimaryDoc      |-> [i \in 1..Len(rows) |-> rows[i][4]]]

\* json.Decode fills the four arrays of Submissions.Filings.Recent one by
\* one (src/a.go:43-52, 358): a document may give them different lengths
Truncated(s, la, ld, lp) ==
    [s EXCEPT !.AccessionNumber = SubSeq(@, 1, la),
              !.FilingDate = SubSeq(@, 1, ld),
              !.PrimaryDoc = SubSeq(@, 1, lp)]

\* the catalogs of a run: the rows the server has, and the same documents
\* with the arrays after "form" cut short
RunCatalogs ==
    UNION { { Truncated(SubsOf(rows), n, n, n) : n \in 0..Len(rows) } :
            rows \in UNION { [1..m -> Rows] : m \in 0..MaxEntries } }

RawDocs == { "<b>Revenue</b>", "<i>$ 1,000</i>" }

Body(ok, companies, subs, raw) ==
    [ok |-> ok, companies |-> companies, subs |-> subs, raw |-> raw]

Garbage == Body(FALSE, {}, EmptySubs, "")

NoRes == [kind |-> "none", status |-> 0, retryAfter |-> "", body |-> Garbage,
          msg |-> ""]

NoProbe == [in |-> "", data |-> {}, a |-> "", b |-> ""]

NoSent == [t |-> 0, kind |-> "", entry |-> 0]

\* ------------------------------------------------------------------------
\* State
\* ------------------------------------------------------------------------
VARIABLES
    tickers,    \* main: the symbols of the run, upper-cased and trimmed
    tIdx,       \* main: position of the range loop over tickers
    pc,         \* where the single thread of control is
    runs,       \* number of runs of the program so far
    fs,         \* the file system: path -> content
    dpc,        \* doRateLimitedRequest: position inside the call
    attempt,    \* doRateLimitedRequest: loop variable
    delay,      \* doRateLimitedRequest: the computed wait, in seconds
    url,        \* the URL of the request in hand
    dres,       \* doRateLimitedRequest: (resp, err) returned to the caller
    sent,       \* requests issued by the current dispatcher call
    acquired,   \* tokens acquired by the current dispatcher call
    throttled,  \* 429 responses received by the current dispatcher call
    paddedCIK,  \* processTicker: the zero-padded identifier
    subs,       \* processTicker: the decoded Submissions
    items,      \* processTicker: the selection
    idx,        \* processTicker: entries of the selection already handled
    processed,  \* processTicker: Summary counters
    skipped,
    failed,
    errors,     \* processTicker: the failure messages
    existed,    \* was the target file present when downloadFiling was entered
    calls,      \* history: the downloadFiling invocations of this symbol
    resolved,   \* history: the server gave an identifier for this symbol
    fetched,    \* history: the server gave a catalog for this symbol
    visited,    \* history: positions of tickers handed to processTicker
    aborted,    \* history: positions whose resolution or catalog fetch failed
    ua,         \* the User-Agent header of the request in hand
    lastSent,   \* history: the request that went out last in this run
    probe       \* results of a function applied on its own (SpecResolve, ...)

vars == << tickers, tIdx, pc, runs, fs, dpc, attempt, delay, url, dres,
           sent, acquired, throttled, paddedCIK, subs, items, idx,
           processed, skipped, failed, errors, existed, calls, resolved,
           fetched, visited, aborted, ua, lastSent, probe >>

dvars == << dpc, attempt, delay, url, ua, dres, sent, acquired, throttled >>
tvars == << paddedCIK, subs, items, idx, processed, skipped, failed, errors,
            existed, calls, resolved, fetched >>

\* ------------------------------------------------------------------------
\* The dispatcher: doRateLimitedRequest (src/a.go:101-125)
\* ------------------------------------------------------------------------
\* the retry loop with an off-by-one bound
RetryLoopCondInclusive(a) == a <= MaxRetries

\* the loop condition of the retry loop
RetryLoopCond(a) == a < MaxRetries

ExhaustedMsg == "max retries exceeded after 429 responses"

UserAgent == "Company SysAdmin contact@yahoo.com"

\* http.NewRequest("GET", u, nil): a request without a User-Agent of its own
NewRequest(u) == [url |-> u, ua |-> ""]

\* the header left as http.NewRequest made it
SetUserAgentMissing(req) == req

\* req.Header.Set("User-Agent", UserAgent)
SetUserAgent(req) == [req EXCEPT !.ua = UserAgent]

\* a caller enters doRateLimitedRequest(req)
CallDispatcher(req) ==
    /\ dpc' = "wait"
    /\ url' = req.url
    /\ ua' = req.ua
    /\ attempt' = 0
    /\ delay' = 0
    /\ dres' = NoRes
    /\ sent' = 0
    /\ acquired' = 0
    /\ throttled' = 0

\* the caller has taken (resp, err)
DispatcherIdle ==
    /\ dpc' = "idle"
    /\ url' = ""
    /\ ua' = ""
    /\ attempt' = 0
    /\ delay' = 0
    /\ dres' = NoRes
    /\ sent' = 0
    /\ acquired' = 0
    /\ throttled' = 0

\* limiter.Wait(context.Background()): blocks until the bucket (8 per second,
\* burst 8) grants a token; the context is never cancelled and a single
\* token never exceeds the burst, so the call does not fail.  The level of
\* the bucket is a matter of real time and is not kept: the step is the
\* grant.  Then the loop is entered with attempt = 0
LimiterWait ==
    /\ dpc = "wait"
    /\ acquired' = acquired + 1
    /\ dpc' = IF RetryLoopCond(attempt) THEN "do" ELSE "ret"
    /\ dres' = IF RetryLoopCond(attempt) THEN dres
               ELSE [NoRes EXCEPT !.kind = "err", !.msg = ExhaustedMsg]
    /\ UNCHANGED << probe, lastSent, tickers, tIdx, pc, runs, fs, attempt, delay, url, ua, sent,
                    throttled, tvars, visited, aborted >>

\* the server's answer to a request, by the endpoint the caller addresses
Bodies ==
    IF pc = "getCIK" THEN { Body(TRUE, m, EmptySubs, "") : m \in MappingDocs } \cup {Garbage}
    ELSE IF pc = "getFilings" THEN { Body(TRUE, {}, c, "") : c \in RunCatalogs } \cup {Garbage}
    ELSE { Body(TRUE, {}, EmptySubs, r) : r \in RawDocs }

\* net/url escapes a space of the path when the URL is printed
EscapeURL(u) == ReplaceAll(u, " ", "%20")

TransportMsg(u) == "Get \"" \o EscapeURL(u) \o "\": connection refused"

Statuses == { 200, 404, 429 }

\* every status but 200 is taken for a throttling response
IsThrottleAnyFailure(status) == status # 200

\* resp.StatusCode == http.StatusTooManyRequests (src/a.go:112)
IsThrottle(status) == status = 429

\* httpClient.Do(req) and what the loop body does with its result, up to the
\* next blocking point (src/a.go:107-122)
HttpDo ==
    /\ dpc = "do"
    /\ sent' = sent + 1
    /\ lastSent' = [t |-> tIdx, kind |-> pc,
                    entry |-> IF pc = "download" THEN idx + 1 ELSE 0]
    /\ \/ \* transport failure: returned at once
          /\ dres' = [NoRes EXCEPT !.kind = "err", !.msg = TransportMsg(url)]
          /\ dpc' = "ret"
          /\ UNCHANGED << delay, throttled >>
       \/ \E st \in Statuses :
          \E h \in (IF st = 429 THEN RetryHints ELSE {""}) :
          \E b \in (IF st = StatusOK THEN Bodies ELSE {Garbage}) :
             /\ throttled' = IF st = 429 THEN throttled + 1 ELSE throttled
             /\ dres' = [NoRes EXCEPT !.kind = "resp", !.status = st,
                                      !.retryAfter = h, !.body = b]
             /\ IF IsThrottle(st)
                THEN \* 429: compute the wait, close the body, sleep
                     /\ delay' = BackoffDelay(h, attempt)
                     /\ dpc' = "sleep"
                ELSE \* any other status goes back to the caller
                     /\ dpc' = "ret"
                     /\ UNCHANGED delay
    /\ UNCHANGED << probe, tickers, tIdx, pc, runs, fs, attempt, url, ua, acquired,
                    tvars, visited, aborted >>

\* time.Sleep(delay) ends; continue: attempt++ and the loop condition
SleepDone ==
    /\ dpc = "sleep"
    /\ attempt' = attempt + 1
    /\ delay' = 0
    /\ dpc' = IF RetryLoopCond(attempt + 1) THEN "do" ELSE "ret"
    /\ dres' = IF RetryLoopCond(attempt + 1) THEN NoRes
               ELSE [NoRes EXCEPT !.kind = "err", !.msg = ExhaustedMsg]
    /\ UNCHANGED << probe, lastSent, tickers, tIdx, pc, runs, fs, url, ua, sent, acquired,
                    throttled, tvars, visited, aborted >>

\* ------------------------------------------------------------------------
\* main (src/a.go:130-162)
\* ------------------------------------------------------------------------
RawArgs == { " acme", "" }

ArgLists == UNION { [1..n -> RawArgs] : n \in 0..MaxTickers }

\* src/a.go:149-151
Normalise(args) == [i \in 1..Len(args) |-> ToUpper(TrimSpace(args[i]))]

\* main gives up on the run when a symbol cannot be resolved or fetched
AfterSymbolFatal(i, how) ==
    IF how \in {"cik", "filings"} THEN Len(tickers) + 1 ELSE i + 1

\* the range loop of main goes on to the next symbol however the last ended
AfterSymbol(i, how) == i + 1

ResetTicker ==
    /\ paddedCIK' = ""
    /\ subs' = EmptySubs
    /\ items' = <<>>
    /\ idx' = 0
    /\ processed' = 0
    /\ skipped' = 0
    /\ failed' = 0
    /\ errors' = <<>>
    /\ existed' = FALSE
    /\ calls' = <<>>
    /\ resolved' = FALSE
    /\ fetched' = FALSE

\* processTicker returns to the loop of main
EndSymbol(how) ==
    /\ pc' = "main"
    /\ tIdx' = AfterSymbol(tIdx, how)
    /\ aborted' = IF how \in {"cik", "filings"} THEN aborted \cup {tIdx} ELSE aborted
    /\ ResetTicker
    /\ DispatcherIdle

MainSkipEmpty ==
    /\ pc = "main"
    /\ tIdx <= Len(tickers)
    /\ tickers[tIdx] = ""
    /\ tIdx' = tIdx + 1
    /\ UNCHANGED << probe, lastSent, tickers, pc, runs, fs, dvars, tvars, visited, aborted >>

MappingURL == "https://www.sec.gov/files/company_tickers.json"

\* main calls processTicker, which calls getCIK, which enters the dispatcher
MainProcess ==
    /\ pc = "main"
    /\ tIdx <= Len(tickers)
    /\ tickers[tIdx] # ""
    /\ pc' = "getCIK"
    /\ CallDispatcher(SetUserAgent(NewRequest(MappingURL)))
    /\ visited' = visited \cup {tIdx}
    /\ UNCHANGED << probe, lastSent, tickers, tIdx, runs, fs, tvars, aborted >>

MainExit ==
    /\ pc = "main"
    /\ tIdx > Len(tickers)
    /\ pc' = "done"
    /\ UNCHANGED << probe, lastSent, tickers, tIdx, runs, fs, dvars, tvars, visited, aborted >>

\* the program is started again over the same directories
NewRun ==
    /\ pc = "done"
    /\ runs < MaxRuns
    /\ runs' = runs + 1
    /\ \E args \in ArgLists : tickers' = Normalise(args)
    /\ tIdx' = 1
    /\ pc' = "main"
    /\ visited' = {}
    /\ aborted' = {}
    /\ lastSent' = NoSent
    /\ UNCHANGED << probe, fs, dvars, tvars >>

\* ------------------------------------------------------------------------
\* getCIK (src/a.go:311-339) and the call of getFilings (src/a.go:164-177,
\* 341-349)
\* ------------------------------------------------------------------------
FilingsURL(cik) == "https://data.sec.gov/submissions/CIK" \o cik \o ".json"

\* the checks of getCIK after the dispatcher has returned, in their order
GetCIKFails(res, ticker) ==
    \/ res.kind = "err"
    \/ res.status # StatusOK
    \/ ~res.body.ok
    \/ ~\E c \in res.body.companies : EqualFold(c.Ticker, ticker)

\* history: the server has sent a mapping document that names the symbol
ServerResolved ==
    /\ dres.kind = "resp" /\ dres.status = StatusOK /\ dres.body.ok
    /\ \E c \in dres.body.companies : ToUpper(c.Ticker) = ToUpper(tickers[tIdx])

GetCIKReturn ==
    /\ pc = "getCIK"
    /\ dpc = "ret"
    /\ IF GetCIKFails(dres, tickers[tIdx])
       THEN EndSymbol("cik")
       ELSE \E c \in dres.body.companies :
               /\ EqualFold(c.Ticker, tickers[tIdx])
               /\ paddedCIK' = PaddedCIK(c.CIK)
               /\ pc' = "getFilings"
               /\ CallDispatcher(SetUserAgent(NewRequest(FilingsURL(PaddedCIK(c.CIK)))))
               /\ resolved' = ServerResolved
               /\ UNCHANGED << tIdx, subs, items, idx, processed, skipped,
                               failed, errors, existed, calls, fetched, aborted >>
    /\ UNCHANGED << probe, lastSent, tickers, runs, fs, visited >>

\* ------------------------------------------------------------------------
\* The selection (src/a.go:211-226)
\* ------------------------------------------------------------------------
IsWanted(formType) == ~(formType # "10-K" /\ formType # "10-Q")

\* the cap compared with > in place of >=
CapReachedLate(n) == n > MaxFilesToFetch

CapReached(n) == n >= MaxFilesToFetch

Item(s, i) ==
    [formType |-> s.Form[i], accNum |-> s.AccessionNumber[i],
     docName |-> s.PrimaryDoc[i], dateStr |-> s.FilingDate[i]]

\* an index expression of the loop body is out of range: the run-time panics
OutOfRange(s, i) ==
    \/ i > Len(s.AccessionNumber)
    \/ i > Len(s.PrimaryDoc)
    \/ i > Len(s.FilingDate)

RECURSIVE BuildFrom(_, _, _)
BuildFrom(s, i, acc) ==
    IF i > Len(s.Form) THEN [panic |-> FALSE, items |-> acc]
    ELSE IF ~IsWanted(s.Form[i]) THEN BuildFrom(s, i + 1, acc)
    ELSE IF CapReached(Len(acc)) THEN [panic |-> FALSE, items |-> acc]
    ELSE IF OutOfRange(s, i) THEN [panic |-> TRUE, items |-> acc]
    ELSE BuildFrom(s, i + 1, Append(acc, Item(s, i)))

BuildItems(s) == BuildFrom(s, 1, <<>>)

\* src/a.go:184-200
CountForms(s) == Cardinality({ i \in 1..Len(s.Form) : s.Form[i] \in {"10-K", "10-Q"} })

\* ------------------------------------------------------------------------
\* getFilings returns; processTicker up to the entry loop (src/a.go:177-239,
\* 349-362)
\* ------------------------------------------------------------------------
\* the checks of getFilings after the dispatcher has returned
GetFilingsFails(res) ==
    \/ res.kind = "err"
    \/ res.status # StatusOK
    \/ ~res.body.ok

\* history: the server has sent a catalog
ServerFetched == dres.kind = "resp" /\ dres.status = StatusOK /\ dres.body.ok

GetFilingsReturn ==
    /\ pc = "getFilings"
    /\ dpc = "ret"
    /\ IF GetFilingsFails(dres)
       THEN EndSymbol("filings")
       ELSE IF CountForms(dres.body.subs) = 0
       THEN EndSymbol("none")
       ELSE \/ EndSymbol("mkdir")          \* os.MkdirAll fails
            \/ IF BuildItems(dres.body.subs).panic
               THEN /\ pc' = "crashed"
                    /\ subs' = dres.body.subs
                    /\ DispatcherIdle
                    /\ fetched' = ServerFetched
                    /\ UNCHANGED << tIdx, paddedCIK, items, idx, processed,
                                    skipped, failed, errors, existed, calls,
                                    resolved, aborted >>
               ELSE IF BuildItems(dres.body.subs).items = <<>>
               THEN EndSymbol("empty")
               ELSE /\ pc' = "loop"
                    /\ subs' = dres.body.subs
                    /\ items' = BuildItems(dres.body.subs).items
                    /\ DispatcherIdle
                    /\ fetched' = ServerFetched
                    /\ UNCHANGED << tIdx, paddedCIK, idx, processed, skipped,
                                    failed, errors, existed, calls, resolved,
                                    aborted >>
    /\ UNCHANGED << probe, lastSent, tickers, runs, fs, visited >>

\* ------------------------------------------------------------------------
\* downloadFiling (src/a.go:365-406) and the entry loop (src/a.go:241-285)
\* ------------------------------------------------------------------------
DownloadDir(ticker) == "./filings_" \o ticker

\* filepath.Join cleans the joined path: a leading "./" goes away
Join(dir, name) ==
    IF Len(dir) >= 2 /\ SubSeq(dir, 1, 2) = "./"
    THEN SubSeq(dir, 3, Len(dir)) \o "/" \o name
    ELSE dir \o "/" \o name

Filename(dir, date, form) == Join(dir, date \o "_" \o form \o ".txt")

DocURL(cik, accNum, docName) ==
    "https://www.sec.gov/Archives/edgar/data/" \o TrimLeft(cik, "0") \o "/"
        \o ReplaceAll(accNum, "-", "") \o "/" \o docName

\* the test of os.Stat left out
FileExistsNever(fsys, name) == FALSE

\* os.Stat(filename) gives err == nil
FileExists(fsys, name) == name \in DOMAIN fsys

\* html2text.HTML2Text walks the runes of the document: "<" opens a tag and
\* stops the output, ">" closes it, and outside a tag a character entity is
\* written as the character it names.  The tags used here (b, i) add no line
\* break of their own
\* the text p stands in s at position i
StartsAt(s, i, p) == Len(s) - i + 1 >= Len(p) /\ SubSeq(s, i, i + Len(p) - 1) = p

RECURSIVE StripFrom(_, _, _)
StripFrom(s, i, inTag) ==
    IF i > Len(s) THEN ""
    ELSE IF StartsAt(s, i, "<") THEN StripFrom(s, i + 1, TRUE)
    ELSE IF StartsAt(s, i, ">") THEN StripFrom(s, i + 1, FALSE)
    ELSE IF inTag THEN StripFrom(s, i + 1, TRUE)
    ELSE IF StartsAt(s, i, "&lt;") THEN "<" \o StripFrom(s, i + 4, FALSE)
    ELSE IF StartsAt(s, i, "&gt;") THEN ">" \o StripFrom(s, i + 4, FALSE)
    ELSE IF StartsAt(s, i, "&amp;") THEN "&" \o StripFrom(s, i + 5, FALSE)
    ELSE SubSeq(s, i, i) \o StripFrom(s, i + 1, FALSE)

StripTags(s, inTag) == StripFrom(s, 1, inTag)

HTML2Text(raw) == StripTags(raw, FALSE)

\* the text downloadFiling hands to os.WriteFile (src/a.go:397-402)
FileContent(raw, cik, form, date) == HTML2Text(raw)

WriteFile(fsys, name, data) ==
    [f \in DOMAIN fsys \cup {name} |-> IF f = name THEN data ELSE fsys[f]]

CurItem == items[idx + 1]
CurFile == Filename(DownloadDir(tickers[tIdx]), CurItem.dateStr, CurItem.formType)

\* strings.Contains(err.Error(), "already exists") (src/a.go:261)
IsAlreadyExists(msg) == Contains(msg, "already exists")

\* the loop left at the first entry that fails
NextIdxBreakOnError(i, isErr) == IF isErr THEN Len(items) ELSE i + 1

\* an entry that failed is tried again
NextIdxRetryOnError(i, isErr) == IF isErr THEN i ELSE i + 1

\* the loop goes on to the next entry whatever the outcome was
NextIdx(i, isErr) == i + 1

\* the loop body after downloadFiling has returned err (src/a.go:258-276)
Tally(isErr, msg) ==
    /\ processed' = IF isErr THEN processed ELSE processed + 1
    /\ skipped' = IF isErr /\ IsAlreadyExists(msg) THEN skipped + 1 ELSE skipped
    /\ failed' = IF isErr /\ ~IsAlreadyExists(msg) THEN failed + 1 ELSE failed
    /\ errors' = IF isErr /\ ~IsAlreadyExists(msg)
                 THEN Append(errors, CurItem.formType \o " (" \o CurItem.dateStr
                                       \o "): " \o msg)
                 ELSE errors
    /\ calls' = Append(calls, [entry |-> idx + 1, acc |-> CurItem.accNum,
                               existed |-> existed', isErr |-> isErr, msg |-> msg])
    /\ idx' = NextIdx(idx, isErr)

\* one iteration of the loop up to the first blocking point of
\* downloadFiling: either the file is there and the call returns at once, or
\* the request is built and the dispatcher entered
DownloadStart ==
    /\ pc = "loop"
    /\ idx < Len(items)
    /\ existed' = (CurFile \in DOMAIN fs)
    /\ IF FileExists(fs, CurFile)
       THEN /\ Tally(TRUE, "already exists")
            /\ UNCHANGED << pc, dvars >>
       ELSE /\ pc' = "download"
            /\ CallDispatcher(SetUserAgent(NewRequest(
                   DocURL(paddedCIK, CurItem.accNum, CurItem.docName))))
            /\ UNCHANGED << idx, processed, skipped, failed, errors, calls >>
    /\ UNCHANGED << probe, lastSent, tickers, tIdx, runs, fs, paddedCIK, subs, items,
                    resolved, fetched, visited, aborted >>

\* the output file opened before the document is fetched
FetchFailedAfterCreate(msg, fsys, name) ==
    [isErr |-> TRUE, msg |-> msg, fs |-> WriteFile(fsys, name, "")]

\* downloadFiling returns an error of the fetch (src/a.go:383-395): the file
\* is opened only afterwards, by os.WriteFile at line 402
FetchFailed(msg, fsys, name) == [isErr |-> TRUE, msg |-> msg, fs |-> fsys]

\* what downloadFiling can return once the dispatcher has returned, with the
\* file system it leaves behind
DownloadResults ==
    IF dres.kind = "err"
    THEN { FetchFailed(dres.msg, fs, CurFile) }
    ELSE IF dres.status # StatusOK
    THEN { FetchFailed("HTTP " \o Itoa(dres.status) \o " from " \o url, fs, CurFile) }
    ELSE LET text == FileContent(dres.body.raw, paddedCIK, CurItem.formType,
                                 CurItem.dateStr)
         IN  { \* io.ReadAll fails
               FetchFailed("failed to read body: unexpected EOF", fs, CurFile),
               \* os.WriteFile succeeds
               [isErr |-> FALSE, msg |-> "", fs |-> WriteFile(fs, CurFile, text)],
               \* os.WriteFile cannot open the file
               [isErr |-> TRUE,
                msg |-> "write failed: open " \o CurFile \o ": permission denied",
                fs |-> fs],
               \* os.WriteFile creates the file and fails while writing
               [isErr |-> TRUE,
                msg |-> "write failed: write " \o CurFile \o ": no space left on device",
                fs |-> WriteFile(fs, CurFile, SubSeq(text, 1, Len(text) \div 2))] }

DownloadReturn ==
    /\ pc = "download"
    /\ dpc = "ret"
    /\ \E r \in DownloadResults :
          /\ fs' = r.fs
          /\ existed' = existed
          /\ Tally(r.isErr, r.msg)
    /\ pc' = "loop"
    /\ DispatcherIdle
    /\ UNCHANGED << probe, lastSent, tickers, tIdx, runs, paddedCIK, subs, items,
                    resolved, fetched, visited, aborted >>

\* the loop is over: the Summary is printed (src/a.go:287-305)
LoopExit ==
    /\ pc = "loop"
    /\ idx >= Len(items)
    /\ pc' = "summary"
    /\ UNCHANGED << probe, lastSent, tickers, tIdx, runs, fs, dvars, tvars, visited, aborted >>

SummaryReturn ==
    /\ pc = "summary"
    /\ EndSymbol("done")
    /\ UNCHANGED << probe, lastSent, tickers, runs, fs, visited >>

\* ------------------------------------------------------------------------
\* The program
\* ------------------------------------------------------------------------
Init ==
    /\ \E args \in ArgLists : tickers = Normalise(args)
    /\ tIdx = 1
    /\ pc = "main"
    /\ runs = 1
    /\ fs = << >>
    /\ dpc = "idle"
    /\ attempt = 0
    /\ delay = 0
    /\ url = ""
    /\ dres = NoRes
    /\ sent = 0
    /\ acquired = 0
    /\ throttled = 0
    /\ paddedCIK = ""
    /\ subs = EmptySubs
    /\ items = <<>>
    /\ idx = 0
    /\ processed = 0
    /\ skipped = 0
    /\ failed = 0
    /\ errors = <<>>
    /\ existed = FALSE
    /\ calls = <<>>
    /\ resolved = FALSE
    /\ fetched = FALSE
    /\ visited = {}
    /\ aborted = {}
    /\ ua = ""
    /\ lastSent = NoSent
    /\ probe = NoProbe

Next ==
    \/ LimiterWait
    \/ HttpDo
    \/ SleepDone
    \/ MainSkipEmpty
    \/ MainProcess
    \/ MainExit
    \/ NewRun
    \/ GetCIKReturn
    \/ GetFilingsReturn
    \/ DownloadStart
    \/ DownloadReturn
    \/ LoopExit
    \/ SummaryReturn

Spec == Init /\ [][Next]_vars

\* one run of the program with its environment: the one goroutine goes on
\* while it has a step to take, every request sent is answered or fails,
\* every sleep ends
NextRun ==
    \/ LimiterWait
    \/ HttpDo
    \/ SleepDone
    \/ MainSkipEmpty
    \/ MainProcess
    \/ MainExit
    \/ GetCIKReturn
    \/ GetFilingsReturn
    \/ DownloadStart
    \/ DownloadReturn
    \/ LoopExit
    \/ SummaryReturn

SpecFair == Init /\ [][NextRun]_vars /\ WF_vars(NextRun)

\* ------------------------------------------------------------------------
\* The selection on its own: the loop of src/a.go:211-226 applied to catalogs
\* that are longer than the cap
\* ------------------------------------------------------------------------
FormTags == { "10-K", "10-Q", "8-K", "10-K/A" }

Seqs(S, n) == UNION { [1..m -> S] : m \in 0..n }

Fills == { [i \in 1..n |-> f] : n \in 0..MaxFill, f \in FormTags }

\* the attributes of row i are made from i, so that a row can be told from
\* its neighbours
TaggedSubs(forms) ==
    [AccessionNumber |-> [i \in 1..Len(forms) |-> "0001-24-" \o Itoa(i)],
     FilingDate      |-> [i \in 1..Len(forms) |-> "2024-01-" \o Itoa(10 + i)],
     Form            |-> forms,
     PrimaryDoc      |-> [i \in 1..Len(forms) |-> "doc" \o Itoa(i) \o ".htm"]]

SelectCatalogs ==
    { TaggedSubs(a \o b \o c) :
        a \in Seqs(FormTags, MaxPrefix), b \in Fills, c \in Seqs(FormTags, MaxSuffix) }

InitSelect ==
    /\ subs \in SelectCatalogs
    /\ pc = "select"
    /\ tickers = <<>>
    /\ tIdx = 1
    /\ runs = 1
    /\ fs = << >>
    /\ dpc = "idle"
    /\ attempt = 0
    /\ delay = 0
    /\ url = ""
    /\ dres = NoRes
    /\ sent = 0
    /\ acquired = 0
    /\ throttled = 0
    /\ paddedCIK = ""
    /\ items = <<>>
    /\ idx = 0
    /\ processed = 0
    /\ skipped = 0
    /\ failed = 0
    /\ errors = <<>>
    /\ existed = FALSE
    /\ calls = <<>>
    /\ resolved = FALSE
    /\ fetched = FALSE
    /\ visited = {}
    /\ aborted = {}
    /\ ua = ""
    /\ lastSent = NoSent
    /\ probe = NoProbe

SelectStep ==
    /\ pc = "select"
    /\ items' = BuildItems(subs).items
    /\ pc' = IF BuildItems(subs).panic THEN "crashed" ELSE "selected"
    /\ UNCHANGED << lastSent, probe, tickers, tIdx, runs, fs, dvars, paddedCIK, subs, idx,
                    processed, skipped, failed, errors, existed, calls,
                    resolved, fetched, visited, aborted >>

NextSelect == SelectStep

SpecSelect == InitSelect /\ [][NextSelect]_vars

\* ------------------------------------------------------------------------
\* getCIK's lookup on its own (src/a.go:328-338): one mapping document, the
\* symbol in its lower-case and in its upper-case spelling
\* ------------------------------------------------------------------------
ResolveCompanies ==
    { [CIK |-> 1, Ticker |-> "ACME"], [CIK |-> 2, Ticker |-> "acme"],
      [CIK |-> 3, Ticker |-> "Brk.B"], [CIK |-> 4, Ticker |-> "ZZ"] }

ResolveSymbols == { "acme", "AcMe", "brk.b", "BRK.B", "zz", "q" }

\* the range loop over the decoded map returns at the first entry that
\* matches; a Go map is ranged over in no fixed order, so any matching entry
\* can be that one
GetCIKOutcomes(data, ticker) ==
    IF \E c \in data : EqualFold(c.Ticker, ticker)
    THEN { "cik " \o Itoa(c.CIK) : c \in { x \in data : EqualFold(x.Ticker, ticker) } }
    ELSE { "ticker not found" }

Defaults ==
    /\ tickers = <<>>
    /\ tIdx = 1
    /\ runs = 1
    /\ fs = << >>
    /\ dpc = "idle"
    /\ attempt = 0
    /\ delay = 0
    /\ url = ""
    /\ ua = ""
    /\ dres = NoRes
    /\ sent = 0
    /\ acquired = 0
    /\ throttled = 0
    /\ paddedCIK = ""
    /\ subs = EmptySubs
    /\ items = <<>>
    /\ idx = 0
    /\ processed = 0
    /\ skipped = 0
    /\ failed = 0
    /\ errors = <<>>
    /\ existed = FALSE
    /\ calls = <<>>
    /\ resolved = FALSE
    /\ fetched = FALSE
    /\ visited = {}
    /\ aborted = {}
    /\ lastSent = NoSent

InitResolve ==
    /\ Defaults
    /\ pc = "resolve"
    /\ \E sym \in ResolveSymbols, m \in SUBSET ResolveCompanies :
          probe = [NoProbe EXCEPT !.in = sym, !.data = m]

ResolveLower ==
    /\ pc = "resolve"
    /\ \E o \in GetCIKOutcomes(probe.data, ToLower(probe.in)) :
          probe' = [probe EXCEPT !.a = o]
    /\ pc' = "resolvedLower"
    /\ UNCHANGED << tickers, tIdx, runs, fs, dvars, tvars, visited, aborted, lastSent >>

ResolveUpper ==
    /\ pc = "resolvedLower"
    /\ \E o \in GetCIKOutcomes(probe.data, ToUpper(probe.in)) :
          probe' = [probe EXCEPT !.b = o]
    /\ pc' = "resolved"
    /\ UNCHANGED << tickers, tIdx, runs, fs, dvars, tvars, visited, aborted, lastSent >>

NextResolve == ResolveLower \/ ResolveUpper

SpecResolve == InitResolve /\ [][NextResolve]_vars

\* ------------------------------------------------------------------------
\* The text conversion of downloadFiling on its own (src/a.go:397), applied
\* to a document and then to its own output
\* ------------------------------------------------------------------------
Pieces == { "x", " ", "<b>", "</b>", "&lt;", "&gt;", "&amp;", "lt;" }

RECURSIVE Concat(_)
Concat(q) == IF q = <<>> THEN "" ELSE Head(q) \o Concat(Tail(q))

NormDocs == { Concat(q) : q \in Seqs(Pieces, MaxPieces) }

InitNormalize ==
    /\ Defaults
    /\ pc = "normalize"
    /\ \E x \in NormDocs : probe = [NoProbe EXCEPT !.in = x]

NormalizeOnce ==
    /\ pc = "normalize"
    /\ probe' = [probe EXCEPT !.a = HTML2Text(probe.in)]
    /\ pc' = "normalized"
    /\ UNCHANGED << tickers, tIdx, runs, fs, dvars, tvars, visited, aborted, lastSent >>

NormalizeAgain ==
    /\ pc = "normalized"
    /\ probe' = [probe EXCEPT !.b = HTML2Text(probe.a)]
    /\ pc' = "normalizedTwice"
    /\ UNCHANGED << tickers, tIdx, runs, fs, dvars, tvars, visited, aborted, lastSent >>

NextNormalize == NormalizeOnce \/ NormalizeAgain

SpecNormalize == InitNormalize /\ [][NextNormalize]_vars

\* ------------------------------------------------------------------------
\* The selection applied to every catalog json.Decode can deliver: the four
\* arrays of Submissions.Filings.Recent (src/a.go:43-52) are decoded one by
\* one, and a document may give them different lengths
\* ------------------------------------------------------------------------
DecodedCatalogs ==
    UNION { { Truncated(TaggedSubs(forms), la, ld, lp) :
                la \in 0..Len(forms), ld \in 0..Len(forms), lp \in 0..Len(forms) } :
            forms \in Seqs(FormTags, MaxAlign) }

InitAlign ==
    /\ subs \in DecodedCatalogs
    /\ pc = "select"
    /\ tickers = <<>>
    /\ tIdx = 1
    /\ runs = 1
    /\ fs = << >>
    /\ dpc = "idle"
    /\ attempt = 0
    /\ delay = 0
    /\ url = ""
    /\ dres = NoRes
    /\ sent = 0
    /\ acquired = 0
    /\ throttled = 0
    /\ paddedCIK = ""
    /\ items = <<>>
    /\ idx = 0
    /\ processed = 0
    /\ skipped = 0
    /\ failed = 0
    /\ errors = <<>>
    /\ existed = FALSE
    /\ calls = <<>>
    /\ resolved = FALSE
    /\ fetched = FALSE
    /\ visited = {}
    /\ aborted = {}
    /\ ua = ""
    /\ lastSent = NoSent
    /\ probe = NoProbe

NextAlign == SelectStep

SpecAlign == InitAlign /\ [][NextAlign]_vars

\* ------------------------------------------------------------------------
\* Properties
\* ------------------------------------------------------------------------
Last(q) == q[Len(q)]

StartsWith(s, p) == Len(s) >= Len(p) /\ SubSeq(s, 1, Len(p)) = p

Exhausted == dpc = "ret" /\ dres.kind = "err" /\ dres.msg = ExhaustedMsg

\* C1: every request issued by a dispatcher call, re-issues after a 429
\* included, is preceded by its own acquisition of a token: the requests sent
\* never exceed the tokens acquired.
C1_TokenPerRequest == sent <= acquired

\* C2: one dispatcher call never issues more than MaxRetries requests,
\* whatever the server answers.
C2_AttemptCap == sent <= MaxRetries

C2_Witness == sent = MaxRetries /\ throttled = MaxRetries /\ dpc = "sleep"

\* C3 (as stated): the retries-exhausted error is returned upon the
\* (MaxRetries + 1)th throttled response.
C3_ExhaustedOnNPlus1 == Exhausted => throttled = MaxRetries + 1

\* C3 (amended): the retries-exhausted error is returned exactly when
\* MaxRetries throttled responses have been received by the call (after the
\* sleep that follows the last of them): never after fewer, always then, and
\* with MaxRetries requests issued.
C3_ExhaustedOnNth ==
    /\ Exhausted => (throttled = MaxRetries /\ sent = MaxRetries)
    /\ (dpc = "ret" /\ throttled = MaxRetries) => Exhausted
    /\ (dpc \in {"do", "sleep"}) => throttled <= MaxRetries

C3_Witness == Exhausted /\ throttled = MaxRetries

\* C4: downloadFiling entered while the target file exists returns the
\* "already exists" result, which the loop counts as Skipped and not as
\* Failed; the dispatcher is not entered and the directory is left as it was,
\* with the file in it.
C4_SkipStep ==
    (Len(calls') = Len(calls) + 1 /\ Last(calls').existed)
        => /\ Last(calls').isErr
           /\ Last(calls').msg = "already exists"
           /\ skipped' = skipped + 1
           /\ failed' = failed
           /\ errors' = errors
           /\ pc = "loop" /\ pc' = "loop"
           /\ dpc = "idle" /\ dpc' = "idle"
           /\ sent = 0 /\ sent' = 0
           /\ fs' = fs
           /\ CurFile \in DOMAIN fs'

C4_SkipIdempotent == [][C4_SkipStep]_vars

\* a second invocation for the same entry after a successful first one
C4_Witness ==
    \E j, k \in 1..Len(calls) :
        /\ j < k
        /\ ~calls[j].isErr
        /\ calls[k].existed
        /\ calls[k].msg = "already exists"
        /\ items[j] = items[k]

\* C5: the selection is the first min(MaxFilesToFetch, m) entries whose form
\* tag is 10-K or 10-Q, in catalog order, each with the attributes of its own
\* row.
Min(a, b) == IF a <= b THEN a ELSE b

MatchIdx(s) ==
    SelectSeq([i \in 1..Len(s.Form) |-> i], LAMBDA i : s.Form[i] \in {"10-K", "10-Q"})

C5_Selection ==
    pc = "selected" =>
        /\ Len(items) = Min(MaxFilesToFetch, Len(MatchIdx(subs)))
        /\ \A k \in 1..Len(items) :
              /\ items[k].formType = subs.Form[MatchIdx(subs)[k]]
              /\ items[k].formType \in {"10-K", "10-Q"}
              /\ items[k].accNum = subs.AccessionNumber[MatchIdx(subs)[k]]
              /\ items[k].docName = subs.PrimaryDoc[MatchIdx(subs)[k]]
              /\ items[k].dateStr = subs.FilingDate[MatchIdx(subs)[k]]

\* more matching entries than the cap, with other entries in between
C5_Witness ==
    /\ pc = "selected"
    /\ Len(MatchIdx(subs)) > MaxFilesToFetch
    /\ Len(items) = MaxFilesToFetch
    /\ \E i \in 1..MatchIdx(subs)[MaxFilesToFetch] : subs.Form[i] \notin {"10-K", "10-Q"}

\* C6: downloadFiling is invoked exactly once for each selected entry, in
\* selection order, whatever the outcomes of the entries before it.
C6_EveryEntryOnce ==
    /\ Len(calls) = idx
    /\ Len(calls) <= Len(items)
    /\ \A k \in 1..Len(calls) : calls[k].entry = k /\ calls[k].acc = items[k].accNum
    /\ pc = "summary" => Len(calls) = Len(items)

\* a failed entry with a sibling handled after it
C6_Witness ==
    /\ pc = "summary"
    /\ \E j, k \in 1..Len(calls) :
          j < k /\ calls[j].isErr /\ ~calls[j].existed /\ ~calls[k].isErr

C8_SummaryFaithful ==
    /\ processed + skipped + failed = Len(calls)
    /\ skipped = Cardinality({ k \in 1..Len(calls) : calls[k].existed })
    /\ failed = Cardinality({ k \in 1..Len(calls) : calls[k].isErr /\ ~calls[k].existed })
    /\ Len(errors) = failed

\* C9: a file written on a Success outcome begins with the metadata header
\* block (identifier, form tag, filing date), then a blank line, then the body.
HasHeader(content, cik, form, date) ==
    \E i \in 1..(Len(content) - 1) :
        /\ SubSeq(content, i, i + 1) = "\n\n"
        /\ Contains(SubSeq(content, 1, i - 1), cik)
        /\ Contains(SubSeq(content, 1, i - 1), form)
        /\ Contains(SubSeq(content, 1, i - 1), date)

C9_HeaderFirst ==
    \A k \in 1..Len(calls) :
        ~calls[k].isErr =>
            LET f == Filename(DownloadDir(tickers[tIdx]), items[k].dateStr, items[k].formType)
            IN  /\ f \in DOMAIN fs
                /\ HasHeader(fs[f], paddedCIK, items[k].formType, items[k].dateStr)

\* C10: a file that exists is never changed or removed by a later step of the
\* program, in this run or in a later one.
C10_WriteOnce ==
    [][\A f \in DOMAIN fs : f \in DOMAIN fs' /\ fs'[f] = fs[f]]_vars

\* a later run meets a file of an earlier one
C10_Witness ==
    /\ runs >= 2
    /\ \E k \in 1..Len(calls) : calls[k].existed /\ calls[k].entry = k
    /\ fs # << >>

\* C11: every request that goes out is sent by the dispatcher (inside a call
\* that went through the limiter, for one of the three fetches) and carries
\* the fixed User-Agent header; this holds for retries as well.
C11_SendStep ==
    (sent' = sent + 1) =>
        /\ dpc = "do"
        /\ acquired >= 1
        /\ pc \in {"getCIK", "getFilings", "download"}
        /\ ua = UserAgent
        /\ ua' = UserAgent

C11_EveryRequestIdentified == [][C11_SendStep]_vars

\* a retry of a document fetch has gone out
C11_Witness == pc = "download" /\ sent >= 2 /\ throttled >= 1 /\ ua = UserAgent

\* C12 (as stated): for every mapping document and every symbol, getCIK with
\* the lower-case spelling and with the upper-case spelling gives the same
\* outcome.
C12_SameOutcome == pc = "resolved" => probe.a = probe.b

\* the identifiers of the entries whose ticker is the symbol, case ignored
IdsFor(data, sym) == { c.CIK : c \in { x \in data : ToUpper(x.Ticker) = ToUpper(sym) } }

\* C12 (amended): for every mapping document in which the entries that match
\* the symbol, case ignored, carry at most one identifier, the two spellings
\* give the same outcome: that identifier, or not-found for both.
C12_SameOutcomeWhenUnique ==
    (pc = "resolved" /\ Cardinality(IdsFor(probe.data, probe.in)) <= 1)
        => /\ probe.a = probe.b
           /\ (IdsFor(probe.data, probe.in) = {}) <=> (probe.a = "ticker not found")
           /\ \A id \in IdsFor(probe.data, probe.in) : probe.a = "cik " \o Itoa(id)

\* a symbol found under both spellings, neither of them the document's own
C12_Witness ==
    /\ pc = "resolved"
    /\ probe.a = "cik 3" /\ probe.b = "cik 3"
    /\ ToLower(probe.in) # ToUpper(probe.in)

\* C13: the text conversion used by downloadFiling is idempotent: applied to
\* its own output it gives that output unchanged.
C13_Idempotent == pc = "normalizedTwice" => probe.b = probe.a

\* C14: within one dispatcher call a further request is issued only after a
\* 429 response: a response with any other status goes back to the caller
\* at once as a result carrying that status, a transport failure goes back
\* at once as an error, both without sleep or retry, also after throttled
\* attempts of the same call.
C14_ReturnStep ==
    /\ (dpc # "do" /\ dpc' = "do") =>
          \/ dpc = "wait" /\ sent = 0
          \/ dpc = "sleep" /\ dres.kind = "resp" /\ dres.status = 429
    /\ (sent' = sent + 1) =>
          \/ /\ dres'.kind = "resp" /\ dres'.status = 429
             /\ dpc' = "sleep"
          \/ /\ dres'.kind = "resp" /\ dres'.status # 429
             /\ dpc' = "ret"
             /\ delay' = 0 /\ attempt' = attempt
          \/ /\ dres'.kind = "err" /\ dres'.msg = TransportMsg(url)
             /\ dpc' = "ret"
             /\ delay' = 0 /\ attempt' = attempt

C14_OnlyThrottlingRetries == [][C14_ReturnStep]_vars

\* a 404 comes back to a caller whose call was throttled twice before
C14_Witness ==
    /\ dpc = "ret" /\ attempt = 2 /\ throttled = 2 /\ sent = 3
    /\ dres.kind = "resp" /\ dres.status = 404

\* C15: after every 429 response the dispatcher sleeps the computed wait and
\* then issues the same request again with the attempt counter incremented;
\* the sleep takes nothing from the token bucket.
C15_SleepStep ==
    (dpc = "sleep" /\ dpc' # "sleep") =>
       /\ dpc' = "do"
       /\ attempt' = attempt + 1
       /\ url' = url /\ ua' = ua
       /\ acquired' = acquired

C15_SleepThenRetry == [][C15_SleepStep]_vars

\* C16: the wait after the k-th 429 response of a call (k = 1..5) is the
\* Retry-After value in seconds when that is a positive integer, else the
\* time left until the Retry-After date when that is a valid date in the
\* future, else 5 seconds times k; the wait is always strictly positive.
IsPositiveInteger(h) == IsDigits(h) /\ TrimLeft(h, "0") # ""

C16_ComputedWait ==
    dpc = "sleep" =>
       LET h == dres.retryAfter
           k == throttled
       IN  /\ k \in 1..MaxRetries
           /\ delay > 0
           /\ IF IsPositiveInteger(h) THEN Itoa(delay) = TrimLeft(h, "0")
              ELSE IF ParseTimeOK(h) /\ TimeUntil(h) > 0 THEN delay = TimeUntil(h)
              ELSE delay = DefaultRetryDelay * k

\* the same statement for the integers whose nanoseconds an int64 holds
C16_ComputedWaitInRange ==
    (dpc = "sleep" /\ ~DecLess(MaxSeconds, Magnitude(dres.retryAfter)))
       => C16_ComputedWait

\* C17: the requests of a run are sequential and ordered: a request is sent
\* only when no other is unanswered; for each symbol the mapping request
\* comes first, the catalog request only after the symbol was resolved, the
\* document requests only after the catalog was fetched and decoded, in the
\* order of the selection; no request of a later symbol is sent before the
\* processing of the symbol before it has ended.
Rank(kind) ==
    CASE kind = "getCIK" -> 1
      [] kind = "getFilings" -> 2
      [] kind = "download" -> 3
      [] OTHER -> 0

C17_SendStep ==
    (sent' = sent + 1) =>
       LET was == lastSent
           now == lastSent'
       IN  /\ dpc = "do" /\ dres = NoRes
           /\ now.t = tIdx /\ Rank(now.kind) >= 1
           /\ now.kind = "getFilings" => resolved
           /\ now.kind = "download" =>
                 /\ resolved /\ fetched
                 /\ now.entry \in 1..Len(items)
                 /\ items = BuildItems(subs).items
           /\ now.t >= was.t
           /\ now.t > was.t => now.kind = "getCIK" /\ calls = <<>> /\ items = <<>>
           /\ (now.t = was.t /\ sent > 0) => now = was
           /\ (now.t = was.t /\ sent = 0) =>
                 \/ Rank(now.kind) = Rank(was.kind) + 1
                 \/ /\ now.kind = "download" /\ was.kind = "download"
                    /\ now.entry > was.entry

C17_SequentialOrdered == [][C17_SendStep]_vars

\* the second document of the second symbol is requested
C17_Witness ==
    /\ lastSent = [t |-> 2, kind |-> "download", entry |-> 2]
    /\ dpc = "ret" /\ Len(calls) = 1 /\ ~calls[1].existed

\* C18: every selected entry is read index-aligned (its accession token,
\* primary document and filing date are the elements at the index of its
\* form tag), and building the selection completes without fault for every
\* decoded catalog.
C18_AlignedNoFault ==
    /\ pc # "crashed"
    /\ pc = "selected" =>
          \A k \in 1..Len(items) :
             LET i == MatchIdx(subs)[k]
             IN  items[k] = [formType |-> subs.Form[i],
                             accNum |-> subs.AccessionNumber[i],
                             docName |-> subs.PrimaryDoc[i],
                             dateStr |-> subs.FilingDate[i]]

\* the same statement for the catalogs whose four arrays have one length
C18_AlignedWhenSameLength ==
    (/\ Len(subs.AccessionNumber) = Len(subs.Form)
     /\ Len(subs.PrimaryDoc) = Len(subs.Form)
     /\ Len(subs.FilingDate) = Len(subs.Form)) => C18_AlignedNoFault

\* C19: a document fetch that ends Failed because of the network (transport
\* failure, retries exhausted, a status other than 200, body read failure)
\* leaves the output directory as it was: no file is made for the entry, and
\* an entry without a file is fetched again, not reported Skipped.
C19_FailedStep ==
    /\ (pc = "download" /\ pc' = "loop") =>
          LET c == Last(calls')
          IN  (\/ dres.kind = "err"
               \/ dres.status # StatusOK
               \/ StartsWith(c.msg, "failed to read body")) =>
                 /\ c.isErr
                 /\ ~IsAlreadyExists(c.msg) => failed' = failed + 1
                 /\ fs' = fs
                 /\ CurFile \notin DOMAIN fs'
    /\ (pc = "loop" /\ idx < Len(items) /\ CurFile \notin DOMAIN fs /\ pc' # pc) =>
          pc' = "download" /\ skipped' = skipped

C19_NetworkFailureWritesNothing == [][C19_FailedStep]_vars

\* in a second run an entry has run out of retries and has no file
C19_Witness ==
    /\ runs = 2 /\ pc = "loop" /\ idx = 1 /\ failed = 1
    /\ Last(calls).msg = ExhaustedMsg
    /\ Filename(DownloadDir(tickers[tIdx]), items[1].dateStr, items[1].formType)
          \notin DOMAIN fs

\* C20: when every request sent is answered or fails and every sleep ends,
\* each dispatcher call returns and a run over its list of symbols finishes,
\* and every selected entry of every symbol that was resolved and whose
\* catalog was fetched has then been given exactly one outcome.
C20_RunFinishes ==
    /\ (dpc = "wait") ~> (dpc = "ret")
    /\ (pc = "main") ~> (pc = "done")
    /\ (resolved /\ fetched /\ pc # "main") ~> (pc = "summary")
    /\ [](pc = "summary" =>
            /\ Len(calls) = Len(items)
            /\ processed + skipped + failed = Len(items))

\* the part of the statement that holds: each call of the dispatcher returns,
\* and a run finishes unless the selection panics; a symbol that reaches its
\* Summary has one outcome for each selected entry
C20_RunFinishesOrPanics ==
    /\ (dpc = "wait") ~> (dpc = "ret")
    /\ (pc = "main") ~> (pc \in {"done", "crashed"})
    /\ (pc = "loop") ~> (pc = "summary")
    /\ [](pc = "summary" =>
            /\ Len(calls) = Len(items)
            /\ processed + skipped + failed = Len(items))
====
